---- MODULE Spec2Model ----
(***************************************************************************)
(* Model of campaign_dashboard/app.py: the summary pipeline                *)
(* (prepare_summary), the sidebar filters and the main view of the         *)
(* Streamlit script.                                                       *)
(*                                                                         *)
(* A DataFrame is [columns |-> sequence of names, rows |-> sequence of     *)
(* rows], a row being a sequence of cells aligned with the columns.        *)
(* A column name is a sequence of tokens: " " is one whitespace character, *)
(* any other token is a run of characters that neither starts nor ends     *)
(* with whitespace.  A cell is a tagged value [k |-> kind, v |-> payload]. *)
(***************************************************************************)
EXTENDS Integers, Sequences, FiniteSets, TLC

VARIABLES
    sheets,           \* worksheets of the Google sheet, as stored remotely
    churn_df, cs_df,  \* module-level frames returned by fetch_data()
    df,               \* prepare_summary: merged frame
    group_cols,       \* prepare_summary: grouping dimensions
    agg_dict,         \* prepare_summary: metric columns to sum (in order)
    summary_df,       \* result of prepare_summary
    use_date_range, date_range, campaign_filter, project_filter,
    filtered_df,
    enable_sheet_view, sheet_to_view,
    kpi_cols,         \* columns selected for the KPI bar chart
    screen,           \* what the page shows: error text, st.write list, frame
    raised,           \* name of an unhandled exception, "" if none
    pc                \* position of the script run

vars == <<sheets, churn_df, cs_df, df, group_cols, agg_dict, summary_df,
          use_date_range, date_range, campaign_filter, project_filter,
          filtered_df, enable_sheet_view, sheet_to_view, kpi_cols, screen,
          raised, pc>>

----------------------------------------------------------------------------
(* Bounds of the model *)

MaxRows == 3        \* rows of the "Daily report - Churn" sheet
MaxCsRows == 2      \* rows of the "CS" sheet
TicksPerDay == 2    \* distinct times of day within one calendar day

----------------------------------------------------------------------------
(* Cells *)

Int_(n) == [k |-> "int", v |-> n]
Str(s) == [k |-> "str", v |-> s]
DateStr(d, t) == [k |-> "datestr", v |-> <<d, t>>]  \* text "day d, time t"
Ts(n) == [k |-> "ts", v |-> n]                      \* Timestamp, in ticks
Pct(h) == [k |-> "pct", v |-> h]                    \* float, in hundredths
NaN == [k |-> "nan", v |-> 0]                       \* NaN / NaT / None
Inf == [k |-> "inf", v |-> 0]                       \* float +inf

IsNull(c) == c.k = "nan"

----------------------------------------------------------------------------
(* Column names *)

Name(s) == <<s>>
Padded(s) == <<" ", s, " ">>

cCampID == Name("Camp_ID")
cCampaignID == Name("Campaign ID")
cProject == Name("Project")
cProjectName == Name("Project Name")
cDate == Name("Date")
cAudience == Name("Audience_ID")
cObjectives == Name("Objectives")
cSent == Name("Sent")
cDelivered == Name("Delivered")
cRead == Name("Read")
cLeadCount == Name("Lead Count")
cReplied == Name("Replied")
cReplyPct == Name("Reply %")
cDeliveryPct == Name("Delivery %")
cCost == Name("Cost")

RECURSIVE LStrip(_)
LStrip(n) == IF n # <<>> /\ Head(n) = " " THEN LStrip(Tail(n)) ELSE n

RECURSIVE RStrip(_)
RStrip(n) ==
    IF n # <<>> /\ n[Len(n)] = " " THEN RStrip(SubSeq(n, 1, Len(n) - 1))
    ELSE n

\* str.strip() on one column name
Strip(n) == RStrip(LStrip(n))

\* name + suffix, as merge() does for overlapping columns
Suffixed(n, sfx) ==
    IF n = <<>> THEN <<sfx>> ELSE [n EXCEPT ![Len(n)] = @ \o sfx]

----------------------------------------------------------------------------
(* Frames *)

EmptyDF == [columns |-> <<>>, rows |-> <<>>]

Range(s) == {s[i] : i \in 1..Len(s)}

HasCol(d, n) == n \in Range(d.columns)

\* position of column n (the first one of that name)
ColIdx(d, n) ==
    CHOOSE i \in 1..Len(d.columns) :
        d.columns[i] = n /\ \A j \in 1..(i - 1) : d.columns[j] # n

Cell(d, row, n) == row[ColIdx(d, n)]

\* Index.str.strip()
StripColumns(d) ==
    [d EXCEPT !.columns = [i \in 1..Len(d.columns) |-> Strip(d.columns[i])]]

\* DataFrame.rename(columns={old: new})
Rename(d, old, new) ==
    [d EXCEPT !.columns =
        [i \in 1..Len(d.columns) |->
            IF d.columns[i] = old THEN new ELSE d.columns[i]]]

\* DataFrame.empty
IsEmpty(d) == Len(d.columns) = 0 \/ Len(d.rows) = 0

----------------------------------------------------------------------------
(* churn_df.merge(cs_df, on=key, how="left") *)

RECURSIVE Flatten(_)
Flatten(ss) == IF ss = <<>> THEN <<>> ELSE Head(ss) \o Flatten(Tail(ss))

\* positions of the right frame's columns that are not the join key
RightKept(right, key) ==
    SelectSeq([i \in 1..Len(right.columns) |-> i],
              LAMBDA i : right.columns[i] # key)

\* non-key names present in both frames
Overlap(left, right, key) ==
    (Range(left.columns) \cap Range(right.columns)) \ {key}

MergeColumns(left, right, key) ==
    LET kept == RightKept(right, key)
        both == Overlap(left, right, key)
    IN  [i \in 1..Len(left.columns) |->
            IF left.columns[i] \in both
            THEN Suffixed(left.columns[i], "_x") ELSE left.columns[i]]
        \o
        [j \in 1..Len(kept) |->
            IF right.columns[kept[j]] \in both
            THEN Suffixed(right.columns[kept[j]], "_y")
            ELSE right.columns[kept[j]]]

\* MergeOne with how="inner": an unmatched left row contributes nothing
MergeOneInner(lrow, left, right, key) ==
    LET kept == RightKept(right, key)
        matches == SelectSeq(right.rows,
                       LAMBDA r : Cell(right, r, key) = Cell(left, lrow, key))
    IN  [m \in 1..Len(matches) |->
            lrow \o [j \in 1..Len(kept) |-> matches[m][kept[j]]]]

\* the rows a single left row contributes to the left join
MergeOne(lrow, left, right, key) ==
    LET kept == RightKept(right, key)
        matches == SelectSeq(right.rows,
                       LAMBDA r : Cell(right, r, key) = Cell(left, lrow, key))
    IN  IF matches = <<>>
        THEN << lrow \o [j \in 1..Len(kept) |-> NaN] >>
        ELSE [m \in 1..Len(matches) |->
                 lrow \o [j \in 1..Len(kept) |-> matches[m][kept[j]]]]

MergeLeft(left, right, key) ==
    [columns |-> MergeColumns(left, right, key),
     rows |-> Flatten([i \in 1..Len(left.rows) |->
                          MergeOne(left.rows[i], left, right, key)])]

----------------------------------------------------------------------------
(* Coercions *)

\* pd.to_datetime(cell, errors="coerce"): the time of day is kept
ToDatetime(c) ==
    CASE c.k = "datestr" -> Ts(c.v[1] * TicksPerDay + c.v[2])
      [] c.k = "ts" -> c
      [] c.k = "int" -> Ts(c.v)
      [] OTHER -> NaN

\* pd.to_numeric(cell, errors="coerce")
ToNumeric(c) ==
    CASE c.k = "int" -> c
      [] OTHER -> NaN

\* df[n] = pd.to_datetime(df[n], errors="coerce")
DatetimeColumn(d, n) ==
    LET i == ColIdx(d, n)
    IN  [d EXCEPT !.rows =
            [r \in 1..Len(d.rows) |->
                [d.rows[r] EXCEPT ![i] = ToDatetime(@)]]]

\* df[n] = pd.to_numeric(df[n], errors="coerce")
NumericColumn(d, n) ==
    LET i == ColIdx(d, n)
    IN  [d EXCEPT !.rows =
            [r \in 1..Len(d.rows) |->
                [d.rows[r] EXCEPT ![i] = ToNumeric(@)]]]

\* calendar day of a Timestamp
DayOf(c) == c.v \div TicksPerDay

\* pd.to_datetime(date) of a date picked in the sidebar: midnight of that day
DayStart(d) == Ts(d * TicksPerDay)

----------------------------------------------------------------------------
(* df.groupby(group_cols).agg(agg_dict).reset_index() *)

\* lexicographic order of the text values that occur in the sheets
StrOrder == <<"", "A", "B", "P1", "P2", "x">>

StrRank(s) == CHOOSE i \in 1..Len(StrOrder) : StrOrder[i] = s

KindOrder == <<"int", "ts", "pct", "str", "datestr", "inf", "nan">>

KindRank(k) == CHOOSE i \in 1..Len(KindOrder) : KindOrder[i] = k

\* a < b for two cells of one column; nulls sort last
CellLess(a, b) ==
    IF a.k # b.k THEN KindRank(a.k) < KindRank(b.k)
    ELSE CASE a.k \in {"int", "ts", "pct"} -> a.v < b.v
           [] a.k = "str" -> StrRank(a.v) < StrRank(b.v)
           [] a.k = "datestr" ->
                \/ a.v[1] < b.v[1]
                \/ a.v[1] = b.v[1] /\ a.v[2] < b.v[2]
           [] OTHER -> FALSE

\* a < b for two key tuples of the same length
KeyLess(a, b) ==
    \E i \in 1..Len(a) :
        /\ CellLess(a[i], b[i])
        /\ \A j \in 1..(i - 1) : a[j] = b[j]

\* the keys of a set, in ascending order (groupby sort=True)
RECURSIVE SortKeys(_)
SortKeys(ks) ==
    IF ks = {} THEN <<>>
    ELSE LET m == CHOOSE k \in ks : \A o \in ks \ {k} : KeyLess(k, o)
         IN  <<m>> \o SortKeys(ks \ {m})

\* the group key of one row
KeyOf(d, row, cols) == [i \in 1..Len(cols) |-> Cell(d, row, cols[i])]

HasNullKey(key) == \E i \in 1..Len(key) : IsNull(key[i])

\* rows that take part in the grouping: groupby's default dropna=True
\* excludes every row with a null in one of the key columns
GroupedRows(d, cols) ==
    SelectSeq(d.rows, LAMBDA r : ~HasNullKey(KeyOf(d, r, cols)))

\* Series.sum(): nulls are skipped, an all-null group sums to 0
RECURSIVE SumCells(_)
SumCells(cs) ==
    IF cs = <<>> THEN 0
    ELSE (IF IsNull(Head(cs)) THEN 0 ELSE Head(cs).v) + SumCells(Tail(cs))

GroupSum(d, rows, cols, key, metric) ==
    LET members == SelectSeq(rows, LAMBDA r : KeyOf(d, r, cols) = key)
    IN  Int_(SumCells([i \in 1..Len(members) |-> Cell(d, members[i], metric)]))

GroupBy(d, cols, metrics) ==
    LET rows == GroupedRows(d, cols)
        keys == SortKeys({KeyOf(d, rows[i], cols) : i \in 1..Len(rows)})
    IN  [columns |-> cols \o metrics,
         rows |-> [g \in 1..Len(keys) |->
                      keys[g] \o [m \in 1..Len(metrics) |->
                          GroupSum(d, rows, cols, keys[g], metrics[m])]]]

----------------------------------------------------------------------------
(* Derived ratios *)

\* round(x, 2) of the non-negative quotient n / d, in hundredths
\* (ties go to the even neighbour, as numpy rounds)
Round2(n, d) ==
    LET q == (n * 100) \div d
        r == (n * 100) % d
    IN  IF 2 * r < d THEN q
        ELSE IF 2 * r > d THEN q + 1
        ELSE IF q % 2 = 0 THEN q ELSE q + 1

\* (num / den * 100).round(2) on two summed cells: float division, so a zero
\* denominator gives inf (NaN for 0/0) instead of raising
Ratio(num, den) ==
    IF IsNull(num) \/ IsNull(den) THEN NaN
    ELSE IF den.v = 0 THEN (IF num.v = 0 THEN NaN ELSE Inf)
    ELSE Pct(Round2(num.v * 100, den.v))

\* summary[name] = (summary[num] / summary[den] * 100).round(2)
AddRatio(d, name, num, den) ==
    [columns |-> Append(d.columns, name),
     rows |-> [i \in 1..Len(d.rows) |->
                  Append(d.rows[i],
                         Ratio(Cell(d, d.rows[i], num), Cell(d, d.rows[i], den)))]]

----------------------------------------------------------------------------
(* Filters of the sidebar *)

\* filtered_df[(filtered_df["Date"] >= start) & (filtered_df["Date"] <= end)]
\* a comparison with NaT is False
InRange(c, start, end) == ~IsNull(c) /\ c.v >= start.v /\ c.v <= end.v

FilterDate(d, dr) ==
    IF dr # <<>> /\ Len(dr) = 2
    THEN [d EXCEPT !.rows =
            SelectSeq(d.rows, LAMBDA r :
                InRange(Cell(d, r, cDate), DayStart(dr[1]), DayStart(dr[2])))]
    ELSE d

\* FilterCampaign without the "if campaign_filter:" guard
FilterCampaignUnguarded(d, cf) ==
    [d EXCEPT !.rows =
        SelectSeq(d.rows, LAMBDA r : Cell(d, r, cCampID) \in cf)]

\* filtered_df[filtered_df["Camp_ID"].isin(campaign_filter)]
FilterCampaign(d, cf) ==
    IF cf # {}
    THEN [d EXCEPT !.rows =
            SelectSeq(d.rows, LAMBDA r : Cell(d, r, cCampID) \in cf)]
    ELSE d

\* filtered_df[filtered_df["Project Name"].isin(project_filter)]
FilterProject(d, pf) ==
    IF pf # {}
    THEN [d EXCEPT !.rows =
            SelectSeq(d.rows, LAMBDA r : Cell(d, r, cProjectName) \in pf)]
    ELSE d

\* summary_df[col].unique(): the options offered by a multiselect
Unique(d, n) == {Cell(d, d.rows[i], n) : i \in 1..Len(d.rows)}

----------------------------------------------------------------------------
(* Contents of the two worksheets *)

\* calendar days that occur in the sheets and in the date picker
Days == {1, 2}

\* rows of "Daily report - Churn", by field
ChurnPool ==
    { [camp |-> Int_(1), date |-> DateStr(1, 0), proj |-> Str("P1"),
       aud |-> Str("A"), obj |-> Str("B"),
       sent |-> Int_(1), delivered |-> Int_(1), replied |-> Int_(1)],
      [camp |-> Int_(1), date |-> DateStr(1, TicksPerDay - 1),
       proj |-> Str("P1"), aud |-> Str("A"), obj |-> Str("B"),
       sent |-> Int_(0), delivered |-> Int_(0), replied |-> Int_(1)],
      [camp |-> Int_(2), date |-> DateStr(2, 0), proj |-> Str("P2"),
       aud |-> Str("A"), obj |-> Str("B"),
       sent |-> Str("x"), delivered |-> Int_(1), replied |-> Int_(0)],
      [camp |-> Int_(2), date |-> Str("x"), proj |-> Str("P2"),
       aud |-> Str("A"), obj |-> Str("B"),
       sent |-> Int_(2), delivered |-> Int_(1), replied |-> Int_(1)],
      [camp |-> Int_(1), date |-> DateStr(1, 0), proj |-> Str("P1"),
       aud |-> Str("A"), obj |-> Str("B"),
       sent |-> Int_(0), delivered |-> Int_(0), replied |-> Int_(0)] }

\* rows of "CS", by field
CsPool ==
    { [camp |-> Int_(1), cost |-> Int_(10), date |-> DateStr(2, 0),
       proj |-> Str("P2"), obj |-> Str("A")],
      [camp |-> Int_(2), cost |-> Int_(20), date |-> DateStr(1, 0),
       proj |-> Str("P1"), obj |-> Str("B")] }

\* non-empty sequences over S of length at most n
SeqsUpTo(S, n) == UNION {[1..m -> S] : m \in 1..n}

\* a sheet: header is a sequence of <<column name, field>>, one row per record
Sheet(header, recs) ==
    [columns |-> [j \in 1..Len(header) |-> header[j][1]],
     rows |-> [i \in 1..Len(recs) |->
                  [j \in 1..Len(header) |-> recs[i][header[j][2]]]]]

\* the subsequences of a sequence
SubSeqs(s) ==
    {SelectSeq(s, LAMBDA e : e \in keep) : keep \in SUBSET Range(s)}

FullMetrics ==
    << <<cSent, "sent">>, <<cDelivered, "delivered">>, <<cReplied, "replied">> >>

CanonicalKeys ==
    << <<cDate, "date">>, <<cCampID, "camp">>, <<cProjectName, "proj">> >>

\* headers whose key columns are named, padded or missing in various ways
KeyHeaders ==
    {d \o c \o p \o FullMetrics :
        d \in {<< <<cDate, "date">> >>, <<>>},
        c \in {<< <<cCampID, "camp">> >>, << <<Padded("Camp_ID"), "camp">> >>,
               << <<cCampaignID, "camp">> >>, <<>>},
        p \in {<< <<cProjectName, "proj">> >>, << <<cProject, "proj">> >>,
               <<>>}}

\* headers with every subset of the metrics and of the optional dimensions
MetricHeaders ==
    {CanonicalKeys \o m \o o :
        m \in SubSeqs(FullMetrics),
        o \in SubSeqs(<< <<cAudience, "aud">>, <<cObjectives, "obj">> >>)}

CsHeaders ==
    {c \o e :
        c \in {<< <<cCampID, "camp">> >>, << <<Padded("Camp_ID"), "camp">> >>,
               << <<cCampaignID, "camp">> >>},
        e \in {<< <<cCost, "cost">> >>, << <<cDate, "date">> >>,
               << <<cProjectName, "proj">> >>, << <<cObjectives, "obj">> >>}}

CsCanonical == << <<cCampID, "camp">>, <<cCost, "cost">> >>

\* two fixed records for the sheets whose header varies
FixedChurn ==
    << CHOOSE r \in ChurnPool : r.camp = Int_(1) /\ r.sent = Int_(1),
       CHOOSE r \in ChurnPool : r.camp = Int_(2) /\ r.sent = Int_(2) >>

FixedCs == << CHOOSE r \in CsPool : r.camp = Int_(1) >>

\* the <<churn sheet, CS sheet>> pairs the run may fetch
Workbooks ==
    {<<Sheet(CanonicalKeys \o FullMetrics, rs), Sheet(CsCanonical, cs)>> :
        rs \in SeqsUpTo(ChurnPool, MaxRows), cs \in SeqsUpTo(CsPool, MaxCsRows)}
    \cup
    {<<Sheet(h, FixedChurn), Sheet(c, FixedCs)>> :
        h \in KeyHeaders, c \in CsHeaders}
    \cup
    {<<Sheet(h, FixedChurn), Sheet(CsCanonical, FixedCs)>> :
        h \in MetricHeaders}

----------------------------------------------------------------------------
(* The script run *)

BlankScreen == [error |-> "", written |-> <<>>, frame |-> EmptyDF, note |-> ""]

Metrics == <<cSent, cDelivered, cRead, cLeadCount, cReplied>>

\* sheets offered by the raw sheet viewer that this model fetches
SheetChoices == {"None", "Daily report - Churn", "CS"}

\* date_input values: nothing picked, one date, or a start and an end
DateRangeInputs ==
    {<<>>} \cup {<<d>> : d \in Days}
           \cup {p \in Days \X Days : p[1] <= p[2]}

Init ==
    /\ \E w \in Workbooks : sheets = [churn |-> w[1], cs |-> w[2]]
    /\ churn_df = EmptyDF
    /\ cs_df = EmptyDF
    /\ df = EmptyDF
    /\ group_cols = <<>>
    /\ agg_dict = <<>>
    /\ summary_df = EmptyDF
    /\ use_date_range = FALSE
    /\ date_range = <<>>
    /\ campaign_filter = {}
    /\ project_filter = {}
    /\ filtered_df = EmptyDF
    /\ enable_sheet_view = FALSE
    /\ sheet_to_view = "None"
    /\ kpi_cols = <<>>
    /\ screen = BlankScreen
    /\ raised = ""
    /\ pc = "start"

\* fetch_data(): one DataFrame per worksheet, names and cells as stored
FetchData ==
    /\ pc = "start"
    /\ churn_df' = sheets.churn
    /\ cs_df' = sheets.cs
    /\ pc' = "fetched"
    /\ UNCHANGED <<sheets, df, group_cols, agg_dict, summary_df,
                   use_date_range, date_range, campaign_filter,
                   project_filter, filtered_df, enable_sheet_view,
                   sheet_to_view, kpi_cols, screen, raised>>

\* the churn frame after the strip and the two alias renames
NormalizedChurn(d) ==
    LET a == StripColumns(d)
        b == IF HasCol(a, cCampaignID)
             THEN Rename(a, cCampaignID, cCampID) ELSE a
    IN  IF HasCol(b, cProject) /\ ~HasCol(b, cProjectName)
        THEN Rename(b, cProject, cProjectName) ELSE b

\* prepare_summary, normalisation: assigns the columns of the frames passed in
Normalize ==
    /\ pc = "fetched"
    /\ churn_df' = NormalizedChurn(churn_df)
    /\ cs_df' = StripColumns(cs_df)
    /\ pc' = "normalized"
    /\ UNCHANGED <<sheets, df, group_cols, agg_dict, summary_df,
                   use_date_range, date_range, campaign_filter,
                   project_filter, filtered_df, enable_sheet_view,
                   sheet_to_view, kpi_cols, screen, raised>>

\* prepare_summary, merge: a missing join key raises KeyError
Merge ==
    /\ pc = "normalized"
    /\ IF HasCol(churn_df, cCampID) /\ HasCol(cs_df, cCampID)
       THEN /\ df' = MergeLeft(churn_df, cs_df, cCampID)
            /\ pc' = "merged"
            /\ UNCHANGED raised
       ELSE /\ raised' = "KeyError"
            /\ pc' = "crashed"
            /\ UNCHANGED df
    /\ UNCHANGED <<sheets, churn_df, cs_df, group_cols, agg_dict, summary_df,
                   use_date_range, date_range, campaign_filter,
                   project_filter, filtered_df, enable_sheet_view,
                   sheet_to_view, kpi_cols, screen>>

\* the merged frame after the Date_x and Project Name_x renames
Resolved(d) ==
    LET a == IF HasCol(d, Suffixed(cDate, "_x"))
             THEN Rename(d, Suffixed(cDate, "_x"), cDate) ELSE d
    IN  IF HasCol(a, Suffixed(cProjectName, "_x"))
        THEN Rename(a, Suffixed(cProjectName, "_x"), cProjectName) ELSE a

\* prepare_summary, suffix resolution: a missing Date is reported and the
\* run stops
Resolve ==
    /\ pc = "merged"
    /\ IF ~HasCol(df, Suffixed(cDate, "_x")) /\ ~HasCol(df, cDate)
       THEN /\ screen' = [screen EXCEPT
                 !.error = "'Date' column not found after merge.",
                 !.written = df.columns]
            /\ pc' = "stopped"
            /\ UNCHANGED df
       ELSE /\ df' = Resolved(df)
            /\ pc' = "resolved"
            /\ UNCHANGED screen
    /\ UNCHANGED <<sheets, churn_df, cs_df, group_cols, agg_dict, summary_df,
                   use_date_range, date_range, campaign_filter,
                   project_filter, filtered_df, enable_sheet_view,
                   sheet_to_view, kpi_cols, raised>>

\* group_cols as built from the merged frame
GroupCols(d) ==
    <<cDate, cCampID, cProjectName>>
        \o (IF HasCol(d, cAudience) THEN <<cAudience>> ELSE <<>>)
        \o (IF HasCol(d, cObjectives) THEN <<cObjectives>> ELSE <<>>)

\* the keys of agg_dict, in insertion order
AggCols(d) == SelectSeq(Metrics, LAMBDA m : HasCol(d, m))

\* to_numeric applied to each of the given columns
RECURSIVE CoerceNumeric(_, _)
CoerceNumeric(d, cols) ==
    IF cols = <<>> THEN d
    ELSE CoerceNumeric(NumericColumn(d, Head(cols)), Tail(cols))

\* prepare_summary, coercion: dates, dimensions, metrics; no metric at all
\* is reported and the run stops
Coerce ==
    /\ pc = "resolved"
    /\ df' = CoerceNumeric(DatetimeColumn(df, cDate), AggCols(df))
    /\ group_cols' = GroupCols(df)
    /\ agg_dict' = AggCols(df)
    /\ IF AggCols(df) = <<>>
       THEN /\ screen' = [screen EXCEPT
                 !.error = "No valid numeric columns found for aggregation."]
            /\ pc' = "stopped"
       ELSE /\ pc' = "coerced"
            /\ UNCHANGED screen
    /\ UNCHANGED <<sheets, churn_df, cs_df, summary_df,
                   use_date_range, date_range, campaign_filter,
                   project_filter, filtered_df, enable_sheet_view,
                   sheet_to_view, kpi_cols, raised>>

\* prepare_summary, grouping: a missing dimension raises KeyError
Group ==
    /\ pc = "coerced"
    /\ IF \A i \in 1..Len(group_cols) : HasCol(df, group_cols[i])
       THEN /\ summary_df' = GroupBy(df, group_cols, agg_dict)
            /\ pc' = "grouped"
            /\ UNCHANGED raised
       ELSE /\ raised' = "KeyError"
            /\ pc' = "crashed"
            /\ UNCHANGED summary_df
    /\ UNCHANGED <<sheets, churn_df, cs_df, df, group_cols, agg_dict,
                   use_date_range, date_range, campaign_filter,
                   project_filter, filtered_df, enable_sheet_view,
                   sheet_to_view, kpi_cols, screen>>

\* the summary with the ratio columns whose inputs exist
Derived(d) ==
    LET a == IF HasCol(d, cReplied) /\ HasCol(d, cSent)
             THEN AddRatio(d, cReplyPct, cReplied, cSent) ELSE d
    IN  IF HasCol(a, cDelivered) /\ HasCol(a, cSent)
        THEN AddRatio(a, cDeliveryPct, cDelivered, cSent) ELSE a

\* prepare_summary, ratios and return
Derive ==
    /\ pc = "grouped"
    /\ summary_df' = Derived(summary_df)
    /\ pc' = "summary"
    /\ UNCHANGED <<sheets, churn_df, cs_df, df, group_cols, agg_dict,
                   use_date_range, date_range, campaign_filter,
                   project_filter, filtered_df, enable_sheet_view,
                   sheet_to_view, kpi_cols, screen, raised>>

\* Filtered with the project filter indexing summary_df, not filtered_df
FilteredFromSummary(d, dr, cf, pf) ==
    IF pf # {} THEN FilterProject(d, pf)
    ELSE FilterCampaign(FilterDate(d, dr), cf)

\* the three filters, in the order the script applies them
Filtered(d, dr, cf, pf) ==
    FilterProject(FilterCampaign(FilterDate(d, dr), cf), pf)

\* sidebar widgets, then the filters on a copy of the summary
ApplyFilters ==
    /\ pc = "summary"
    /\ \E u \in BOOLEAN, dr \in DateRangeInputs,
          cf \in SUBSET Unique(summary_df, cCampID),
          pf \in SUBSET Unique(summary_df, cProjectName) :
            /\ use_date_range' = u
            /\ date_range' = (IF u THEN dr ELSE <<>>)
            /\ campaign_filter' = cf
            /\ project_filter' = pf
            /\ filtered_df' = Filtered(summary_df, IF u THEN dr ELSE <<>>, cf, pf)
    /\ pc' = "filtered"
    /\ UNCHANGED <<sheets, churn_df, cs_df, df, group_cols, agg_dict,
                   summary_df, enable_sheet_view, sheet_to_view, kpi_cols,
                   screen, raised>>

\* the frames of df_map this model fetches
SheetFrame(name) ==
    CASE name = "Daily report - Churn" -> churn_df
      [] name = "CS" -> cs_df
      [] OTHER -> EmptyDF

\* the columns the KPI chart selects
KpiCols(d) ==
    IF HasCol(d, cReplyPct) THEN <<cReplyPct, cDeliveryPct>>
    ELSE <<cDeliveryPct>>

\* sheet viewer widgets, then the main view: a raw sheet, or the filtered
\* summary and its KPI chart; selecting a missing column raises KeyError
MainView ==
    /\ pc = "filtered"
    /\ \E e \in BOOLEAN, s \in SheetChoices :
        /\ enable_sheet_view' = e
        /\ sheet_to_view' = (IF e THEN s ELSE "None")
        /\ IF e /\ s # "None"
           THEN /\ screen' =
                     IF ~IsEmpty(SheetFrame(s))
                     THEN [screen EXCEPT !.frame = SheetFrame(s)]
                     ELSE [screen EXCEPT
                              !.note = "This sheet is empty or not found."]
                /\ pc' = "done"
                /\ UNCHANGED <<kpi_cols, raised>>
           ELSE IF IsEmpty(filtered_df)
           THEN /\ screen' = [screen EXCEPT !.frame = filtered_df,
                        !.note = "No data matches the filters selected."]
                /\ pc' = "done"
                /\ UNCHANGED <<kpi_cols, raised>>
           ELSE /\ screen' = [screen EXCEPT !.frame = filtered_df]
                /\ kpi_cols' = KpiCols(filtered_df)
                /\ IF \A i \in 1..Len(KpiCols(filtered_df)) :
                          HasCol(filtered_df, KpiCols(filtered_df)[i])
                   THEN pc' = "done" /\ UNCHANGED raised
                   ELSE pc' = "crashed" /\ raised' = "KeyError"
    /\ UNCHANGED <<sheets, churn_df, cs_df, df, group_cols, agg_dict,
                   summary_df, use_date_range, date_range, campaign_filter,
                   project_filter, filtered_df>>

Next ==
    \/ FetchData
    \/ Normalize
    \/ Merge
    \/ Resolve
    \/ Coerce
    \/ Group
    \/ Derive
    \/ ApplyFilters
    \/ MainView

Spec == Init /\ [][Next]_vars

TypeOK == pc \in {"start", "fetched", "normalized", "merged", "resolved",
                  "coerced", "grouped", "summary", "filtered", "done",
                  "stopped", "crashed"}

----------------------------------------------------------------------------
(* Properties *)

\* prepare_summary has grouped: df is the merged, coerced frame and
\* summary_df its summary
Summarized == pc \in {"grouped", "summary", "filtered", "done"}

\* prepare_summary has returned
Returned == pc \in {"summary", "filtered", "done"}

\* the filters have been applied
FiltersApplied == pc \in {"filtered", "done"}

RowsOf(d) == {d.rows[i] : i \in 1..Len(d.rows)}

\* sum of the valid values of column n over all rows of d
ColumnTotal(d, n) ==
    LET valid == SelectSeq(d.rows, LAMBDA r : ~IsNull(Cell(d, r, n)))
        PartialSum[i \in 0..Len(valid)] ==
            IF i = 0 THEN 0 ELSE PartialSum[i - 1] + Cell(d, valid[i], n).v
    IN  PartialSum[Len(valid)]

\* C1: every merged row with a null grouping dimension is represented by a
\* row of the summary that carries its group key
C1_NullDimensionRowsKept ==
    Summarized =>
        \A r \in RowsOf(df) :
            HasNullKey(KeyOf(df, r, group_cols)) =>
                \E g \in RowsOf(summary_df) :
                    KeyOf(summary_df, g, group_cols) = KeyOf(df, r, group_cols)

\* C2: for every summed metric, the total over the summary equals the total
\* of the valid values over the merged frame
C2_TotalsPreserved ==
    Summarized =>
        \A i \in 1..Len(agg_dict) :
            ColumnTotal(summary_df, agg_dict[i]) = ColumnTotal(df, agg_dict[i])

\* C3: a summary row whose summed Sent is zero has the null marker in
\* Reply % and in Delivery %, and nothing was raised
C3_ZeroSentRatiosNull ==
    Returned =>
        /\ raised = ""
        /\ \A g \in RowsOf(summary_df) :
            (HasCol(summary_df, cSent) /\ Cell(summary_df, g, cSent).v = 0) =>
                /\ HasCol(summary_df, cReplyPct) =>
                       IsNull(Cell(summary_df, g, cReplyPct))
                /\ HasCol(summary_df, cDeliveryPct) =>
                       IsNull(Cell(summary_df, g, cDeliveryPct))

\* the group key of a summary row with its Date cut to the calendar day
DayKey(d, row, cols) ==
    [i \in 1..Len(cols) |->
        IF cols[i] = cDate /\ ~IsNull(Cell(d, row, cDate))
        THEN DayOf(Cell(d, row, cDate)) ELSE Cell(d, row, cols[i]).v]

\* C4: the summary holds one row per distinct (calendar day, Camp_ID,
\* Project Name[, Audience_ID, Objectives]) tuple
C4_OneRowPerCalendarDay ==
    Summarized =>
        \A i, j \in 1..Len(summary_df.rows) :
            DayKey(summary_df, summary_df.rows[i], group_cols)
                = DayKey(summary_df, summary_df.rows[j], group_cols)
            => i = j

\* the join key is absent from one of the normalized frames
JoinKeyMissing ==
    /\ pc \notin {"start", "fetched"}
    /\ ~HasCol(churn_df, cCampID) \/ ~HasCol(cs_df, cCampID)

\* Date or Project Name is absent from the merged frame, suffixed or not
GroupKeyMissing ==
    /\ pc \notin {"start", "fetched", "normalized"}
    /\ ~JoinKeyMissing
    /\ \/ ~HasCol(df, cDate) /\ ~HasCol(df, Suffixed(cDate, "_x"))
       \/ ~HasCol(df, cProjectName)
            /\ ~HasCol(df, Suffixed(cProjectName, "_x"))

\* C5: with a join or grouping key missing, the run ends stopped on a
\* reported error that lists the columns of the offending frame, raises
\* nothing and returns no summary
C5_MissingKeyReported ==
    /\ raised = "KeyError" => ~(JoinKeyMissing \/ GroupKeyMissing)
    /\ (pc \in {"stopped", "crashed", "summary", "filtered", "done"}
            /\ (JoinKeyMissing \/ GroupKeyMissing)) =>
        /\ pc = "stopped"
        /\ screen.error # ""
        /\ screen.written \in {churn_df.columns, cs_df.columns, df.columns}
        /\ summary_df = EmptyDF

\* C6: once prepare_summary has returned, the frames passed in have the
\* column names and the cells of the sheets as fetched, and the raw sheet
\* viewer shows them so
C6_InputsNotMutated ==
    Returned =>
        /\ churn_df = sheets.churn
        /\ cs_df = sheets.cs
        /\ (pc = "done" /\ sheet_to_view = "Daily report - Churn") =>
               screen.frame = sheets.churn
        /\ (pc = "done" /\ sheet_to_view = "CS") => screen.frame = sheets.cs

\* C10: every column selected for the KPI chart exists in the filtered view
C10_KpiColumnsExist ==
    \A i \in 1..Len(kpi_cols) : HasCol(filtered_df, kpi_cols[i])

\* the predicate of each filter on a summary row; a filter that is not
\* active holds of every row
DateOK(r) ==
    (date_range # <<>> /\ Len(date_range) = 2) =>
        LET c == Cell(summary_df, r, cDate)
        IN  /\ ~IsNull(c)
            /\ c.v >= date_range[1] * TicksPerDay
            /\ c.v <= date_range[2] * TicksPerDay

CampaignOK(r) ==
    campaign_filter # {} => Cell(summary_df, r, cCampID) \in campaign_filter

ProjectOK(r) ==
    project_filter # {} => Cell(summary_df, r, cProjectName) \in project_filter

\* the three filters applied to the summary in every order
FilterOrders ==
    LET D(x) == FilterDate(x, date_range)
        C(x) == FilterCampaign(x, campaign_filter)
        P(x) == FilterProject(x, project_filter)
    IN  { P(C(D(summary_df))), C(P(D(summary_df))), P(D(C(summary_df))),
          D(P(C(summary_df))), C(D(P(summary_df))), D(C(P(summary_df))) }

\* C7: the filtered view is exactly the rows of the summary that satisfy
\* every active predicate, in summary order, and the three filters give
\* that same view in whichever order they are applied
C7_FiltersComposeAsAnd ==
    FiltersApplied =>
        /\ filtered_df.columns = summary_df.columns
        /\ filtered_df.rows =
               SelectSeq(summary_df.rows,
                         LAMBDA r : DateOK(r) /\ CampaignOK(r) /\ ProjectOK(r))
        /\ FilterOrders = {filtered_df}

\* all three filters are active and keep some rows; one row is removed by
\* the date range alone and another by the campaign filter
C7_Witness ==
    /\ pc = "filtered"
    /\ Len(date_range) = 2
    /\ campaign_filter # {}
    /\ project_filter # {}
    /\ Len(filtered_df.rows) > 0
    /\ Len(filtered_df.rows) < Len(summary_df.rows)
    /\ \E r \in RowsOf(summary_df) : ~CampaignOK(r)
    /\ \E r \in RowsOf(summary_df) : ~DateOK(r) /\ CampaignOK(r) /\ ProjectOK(r)

\* C8: with the checkbox off, or fewer than two dates picked, and nothing
\* selected in either multiselect, the filtered view is the whole summary;
\* a filter left empty removes no row that the other filters keep
C8_EmptyFilterIsNoOp ==
    FiltersApplied =>
        /\ ~use_date_range => date_range = <<>>
        /\ filtered_df.columns = summary_df.columns
        /\ (Len(date_range) < 2 /\ campaign_filter = {} /\ project_filter = {})
               => filtered_df = summary_df
        /\ \A r \in RowsOf(summary_df) :
            /\ (Len(date_range) < 2 /\ CampaignOK(r) /\ ProjectOK(r))
                   => r \in RowsOf(filtered_df)
            /\ (campaign_filter = {} /\ DateOK(r) /\ ProjectOK(r))
                   => r \in RowsOf(filtered_df)
            /\ (project_filter = {} /\ DateOK(r) /\ CampaignOK(r))
                   => r \in RowsOf(filtered_df)

\* the checkbox is on with a single date picked, nothing else is selected,
\* and the view is the whole, non-empty summary
C8_Witness ==
    /\ pc = "filtered"
    /\ use_date_range
    /\ Len(date_range) = 1
    /\ campaign_filter = {}
    /\ project_filter = {}
    /\ Len(summary_df.rows) > 1
    /\ filtered_df = summary_df

\* number of rows of the normalized CS frame with the Camp_ID of a churn row
CsMatches(lrow) ==
    Cardinality({j \in 1..Len(cs_df.rows) :
        Cell(cs_df, cs_df.rows[j], cCampID) = Cell(churn_df, lrow, cCampID)})

\* C9: the merged frame has at least the rows of the churn frame, each
\* churn row heading at least one merged row, and exactly as many rows when
\* every churn Camp_ID occurs exactly once in the CS frame
C9_LeftJoinCardinality ==
    pc = "merged" =>
        /\ Len(df.rows) >= Len(churn_df.rows)
        /\ \A i \in 1..Len(churn_df.rows) :
            \E j \in 1..Len(df.rows) :
                SubSeq(df.rows[j], 1, Len(churn_df.columns)) = churn_df.rows[i]
        /\ (\A i \in 1..Len(churn_df.rows) : CsMatches(churn_df.rows[i]) = 1)
               => Len(df.rows) = Len(churn_df.rows)

\* a churn row without a CS match survives next to one that matches twice
C9_Witness ==
    /\ pc = "merged"
    /\ \E i \in 1..Len(churn_df.rows) : CsMatches(churn_df.rows[i]) = 0
    /\ \E i \in 1..Len(churn_df.rows) : CsMatches(churn_df.rows[i]) > 1
    /\ Len(df.rows) > Len(churn_df.rows)

====
